---------------------------- MODULE Spec2Model ----------------------------
(***************************************************************************)
(* A model of simple-png: ParsePng (signature check, segmentation of the   *)
(* byte stream into chunks, the fixed plan of parseBaseChunk), ParseChunk  *)
(* (the claim of one chunk of the pool by a decoder, and the registration  *)
(* of the decoder in OtherChunk on a miss) and GetOtherChunkByName.        *)
(*                                                                         *)
(* Bytes are numbers 0..255, byte slices and strings are sequences of      *)
(* bytes, a ChunkName is the sequence of its four bytes.  A Go error is    *)
(* modelled by its message, the nil error by "nil"; a run-time panic is a  *)
(* separate outcome.                                                       *)
(***************************************************************************)
EXTENDS Integers, Sequences, FiniteSets, TLC

\* ------------------------------------------------------------------ bounds
\* the number of chunks of an input in front of its IEND chunk
MaxChunks == 3
\* the number of ParseChunk calls a caller makes on a parsed Png
MaxCalls == 2
\* the number of goroutines that share a parsed Png
NumCallers == 2

\* --------------------------------------------------------------- constants
pngHeaderBytes == <<137, 80, 78, 71, 13, 10, 26, 10>>

IHDRChunk == <<73, 72, 68, 82>>
PLTEChunk == <<80, 76, 84, 69>>
IDATChunk == <<73, 68, 65, 84>>
IENDChunk == <<73, 69, 78, 68>>
BKGDChunk == <<98, 75, 71, 68>>
CHRMChunk == <<99, 72, 82, 77>>
GAMAChunk == <<103, 65, 77, 65>>
HISTChunk == <<104, 73, 83, 84>>
SBITChunk == <<115, 66, 73, 84>>
TRNSChunk == <<116, 82, 78, 83>>
PHYSChunk == <<112, 72, 89, 115>>
TEXTChunk == <<116, 69, 88, 116>>
ZTXTChunk == <<122, 84, 88, 84>>
TIMEChunk == <<116, 73, 77, 69>>
\* the name of the README's CustomChunkParse, "cust"
CustomChunk == <<99, 117, 115, 116>>
\* the code of a compressed-text chunk as the PNG format writes it, "zTXt";
\* no decoder of the package has this name (ZTXTChunk is "zTXT")
StandardZTXt == <<122, 84, 88, 116>>

chunkNotFoundErr == "chunk not found"
nullSep == <<0>>

\* ----------------------------------------------------------------- helpers
Min(a, b) == IF a < b THEN a ELSE b

Zeros(n) == [i \in 1..n |-> 0]

\* binary.BigEndian.Uint32 and Uint16
Uint32(bs) == bs[1] * 16777216 + bs[2] * 65536 + bs[3] * 256 + bs[4]

Uint16(bs) == bs[1] * 256 + bs[2]

\* the inverse, used to frame the chunks of an input
PutUint32(n) == << (n \div 16777216) % 256, (n \div 65536) % 256, (n \div 256) % 256, n % 256 >>

\* mutant: p.chunks = nChunks is forgotten, the pool stays as it was
RemoveAtKeepsAll(s, i) == s

\* mutant: nChunks[:i] on both branches, the chunks behind the match are lost
RemoveAtTruncates(s, i) == SubSeq(s, 1, i - 1)

\* p.chunks without its i-th element (ParseChunk's two append/slice branches)
RemoveAt(s, i) == IF i # Len(s) THEN SubSeq(s, 1, i - 1) \o SubSeq(s, i + 1, Len(s)) ELSE SubSeq(s, 1, i - 1)


\* ------------------------------------------------------------ the decoders
\* Every Parse is modelled by its outcome: kind "ok" with the decoder's fields
\* in val, kind "err" with the error's message, or kind "panic" (an index out
\* of range, or the panic("implement me") of the unfinished decoders).  A
\* pointer is the sequence of what it points to: <<>> is nil.
ParseOk(v) == [kind |-> "ok", err |-> "nil", val |-> <<v>>]

ParseErr(e) == [kind |-> "err", err |-> e, val |-> <<>>]

ParsePanic(e) == [kind |-> "panic", err |-> e, val |-> <<>>]

\* mutant: the length check covers the width only
IHDRParseShortCheck(ch) ==
  IF ch.code # IHDRChunk THEN ParseErr("invalid chunk code")
  ELSE IF Len(ch.data) < 4 THEN ParseErr("invalid chunk data")
  ELSE ParseOk([Width |-> Uint32(SubSeq(ch.data, 1, 4)), Height |-> 0, BitDepth |-> 0,
                ColorType |-> 0, CompressionMethod |-> 0, FilterMethod |-> 0,
                InterlaceMethod |-> 0])

IHDRParse(ch) ==
  IF ch.code # IHDRChunk THEN ParseErr("invalid chunk code")
  ELSE IF Len(ch.data) < 13 THEN ParseErr("invalid chunk data")
  ELSE ParseOk([Width |-> Uint32(SubSeq(ch.data, 1, 4)),
                Height |-> Uint32(SubSeq(ch.data, 5, 8)),
                BitDepth |-> ch.data[9],
                ColorType |-> ch.data[10],
                CompressionMethod |-> ch.data[11],
                FilterMethod |-> ch.data[12],
                InterlaceMethod |-> ch.data[13]])

PLTEParse(ch) ==
  IF Len(ch.data) < 3 THEN ParsePanic("index out of range")
  ELSE ParseOk([Red |-> ch.data[1], Green |-> ch.data[2], Blue |-> ch.data[3]])

\* IEND embeds IDAT and has no Parse of its own: it is decoded by IDAT.Parse
IDATParse(ch) ==
  ParseOk([Length |-> Uint32(ch.len), ChunkTypeCode |-> ch.code, Data |-> ch.data])

NotImplementedParse(ch) == ParsePanic("implement me")

PHYSParse(ch) ==
  IF Len(ch.data) < 9 THEN ParsePanic("index out of range")
  ELSE ParseOk([X |-> Uint32(SubSeq(ch.data, 1, 4)),
                Y |-> Uint32(SubSeq(ch.data, 5, 8)),
                UnitSpecifier |-> ch.data[9]])

TIMEParse(ch) ==
  IF Len(ch.data) < 7 THEN ParsePanic("index out of range")
  ELSE ParseOk([Year |-> Uint16(SubSeq(ch.data, 1, 2)),
                Month |-> ch.data[3], Day |-> ch.data[4], Hour |-> ch.data[5],
                Minute |-> ch.data[6], Second |-> ch.data[7]])

\* strings.TrimSpace on a string of ASCII bytes
IsSpace(b) == b \in {9, 10, 11, 12, 13, 32}

RECURSIVE TrimLeft(_)
TrimLeft(s) == IF s # <<>> /\ IsSpace(Head(s)) THEN TrimLeft(Tail(s)) ELSE s

RECURSIVE TrimRight(_)
TrimRight(s) ==
  IF s # <<>> /\ IsSpace(s[Len(s)]) THEN TrimRight(SubSeq(s, 1, Len(s) - 1)) ELSE s

TrimSpace(s) == TrimRight(TrimLeft(s))

\* strings.Split(s, nullSep): the pieces of s between its zero bytes
RECURSIVE Split(_)
Split(s) ==
  IF \E i \in 1..Len(s) : s[i] = nullSep[1]
  THEN LET i == CHOOSE k \in 1..Len(s) : s[k] = nullSep[1] /\ \A j \in 1..(k - 1) : s[j] # nullSep[1]
       IN  <<SubSeq(s, 1, i - 1)>> \o Split(SubSeq(s, i + 1, Len(s)))
  ELSE <<s>>

TEXTParse(ch) ==
  LET strs == Split(TrimSpace(ch.data))
  IN  IF Len(strs) # 2 THEN ParseErr("invalid text")
      ELSE ParseOk([Keyword |-> strs[1], Separator |-> <<32>>, Text |-> strs[2]])

ZTXTParse(ch) ==
  LET strs == Split(TrimSpace(ch.data))
  IN  IF Len(strs) # 2 THEN ParseErr("invalid text")
      ELSE IF strs[2] = <<>> THEN ParsePanic("index out of range")
      ELSE ParseOk([Keyword |-> strs[1], Separator |-> <<32>>,
                    CompressionMethod |-> strs[2][1], Text |-> Tail(strs[2])])

\* the README's CustomChunkParse: "your custom parse", return nil
CustomParse(ch) == ParseOk("CustomChunkParse")

\* c.Parse(chunk) for a decoder of the given ChunkName
Parse(name, ch) ==
  CASE name = IHDRChunk -> IHDRParse(ch)
    [] name = PLTEChunk -> PLTEParse(ch)
    [] name = IDATChunk -> IDATParse(ch)
    [] name = IENDChunk -> IDATParse(ch)
    [] name = BKGDChunk -> NotImplementedParse(ch)
    [] name = CHRMChunk -> NotImplementedParse(ch)
    [] name = GAMAChunk -> NotImplementedParse(ch)
    [] name = HISTChunk -> NotImplementedParse(ch)
    [] name = SBITChunk -> NotImplementedParse(ch)
    [] name = TRNSChunk -> NotImplementedParse(ch)
    [] name = PHYSChunk -> PHYSParse(ch)
    [] name = TEXTChunk -> TEXTParse(ch)
    [] name = ZTXTChunk -> ZTXTParse(ch)
    [] name = TIMEChunk -> TIMEParse(ch)
    [] OTHER -> CustomParse(ch)

\* ------------------------------------------------------------------- state
VARIABLES
  input,       \* the bytes behind the io.Reader r
  pos,         \* the number of bytes r has delivered
  recs,        \* the chunks framed into input, in stream order (history)
  pc,          \* where ParsePng, and then its caller, stands
  chunks,      \* p.chunks, the pool
  png,         \* the exported fields of p: IHDR, IDATs, ..., IEND
  acc,         \* the local slice (IDATs, TEXTs, ZTXTs) of the running loop
  err,         \* the error ParsePng returns ("nil": none), or the panic
  OtherChunk,  \* p.OtherChunk: the nil map, or a map of ChunkName to decoders
  mu,          \* the embedded sync.RWMutex: its writer and its readers
  nRead,       \* the number of readChunk calls made (history)
  pool0,       \* every chunk segmentation has put in the pool, in order (history)
  claimed,     \* the claims that succeeded, in order (history)
  registered,  \* the decoders the miss path was to register, in order (history)
  last,        \* the last finished ParseChunk or GetOtherChunkByName call (history)
  ncalls,      \* the number of ParseChunk calls the caller has made
  th           \* the caller goroutines of the concurrent specification

vars == <<input, pos, recs, pc, chunks, png, acc, err, OtherChunk, mu, nRead,
          pool0, claimed, registered, last, ncalls, th>>

\* --------------------------------------------------------------- the input
\* A chunk on the wire: its code and its payload (the length is derived, the
\* crc, which nothing verifies, is four zero bytes).
Rec(code, data) == [code |-> code, data |-> data]

IHDRData(w) == <<0, 0, 0, w, 0, 0, 0, 1, 8, 0, 0, 0, 0>>

\* the kinds of chunk an input is built from
Catalogue ==
  { Rec(IHDRChunk, IHDRData(1)), Rec(IHDRChunk, IHDRData(2)), Rec(IHDRChunk, <<0, 0, 0, 1>>),
    Rec(IDATChunk, <<1>>), Rec(IDATChunk, <<2>>),
    Rec(CustomChunk, <<7>>), Rec(CustomChunk, <<8>>),
    Rec(TEXTChunk, <<107, 0, 118>>), Rec(TEXTChunk, <<107>>),
    Rec(TIMEChunk, <<7, 232, 1, 2, 3, 4, 5>>), Rec(TIMEChunk, <<7, 232>>),
    Rec(BKGDChunk, <<0>>),
    Rec(StandardZTXt, <<107, 0, 0, 120>>),
    Rec(IENDChunk, <<>>) }

\* [4-byte big-endian length][4-byte code][payload][4-byte crc]
Frame(r) == PutUint32(Len(r.data)) \o r.code \o r.data \o Zeros(4)

RECURSIVE FrameAll(_)
FrameAll(rs) == IF rs = <<>> THEN <<>> ELSE Frame(Head(rs)) \o FrameAll(Tail(rs))

\* the signature an input starts with: the right one, one with its last byte
\* corrupted, one cut short, none
Signatures ==
  { pngHeaderBytes, [pngHeaderBytes EXCEPT ![8] = 11], SubSeq(pngHeaderBytes, 1, 4), <<>> }

NoPng ==
  [IHDR |-> <<>>, IDATs |-> <<>>, PLTE |-> <<>>, BKGD |-> <<>>, CHRM |-> <<>>,
   GAMA |-> <<>>, HIST |-> <<>>, PHYS |-> <<>>, SBIT |-> <<>>, TEXTs |-> <<>>,
   TRNS |-> <<>>, TIME |-> <<>>, ZTXTs |-> <<>>, IEND |-> <<>>]

\* the nil map, and the empty map a caller may assign to the exported field
NilMap == [isNil |-> TRUE, m |-> <<>>]

EmptyMap == [isNil |-> FALSE, m |-> <<>>]

NilChunk == [ptr |-> 0, len |-> <<>>, code |-> <<>>, data |-> <<>>, crc |-> <<>>]

Unlocked == [w |-> FALSE, r |-> 0]

NoCall ==
  [op |-> "none", by |-> "none", c |-> [name |-> <<>>, id |-> 0], notSave |-> FALSE,
   out |-> "none", err |-> "nil", before |-> <<>>, idx |-> 0, val |-> <<>>, list |-> <<>>,
   otherBefore |-> NilMap, pngBefore |-> NoPng, locks |-> 0]

\* a goroutine that has not called anything yet
NewThread ==
  [pc |-> "new", op |-> "none", c |-> [name |-> <<>>, id |-> 0], notSave |-> FALSE,
   x |-> <<>>, ok |-> FALSE, nChunks |-> <<>>, hit |-> NilChunk, err |-> "nil", list |-> <<>>]

\* the inputs: up to MaxChunks chunks of the catalogue, then an IEND chunk or
\* the end of the stream
Inputs == UNION { [1..n -> Catalogue] : n \in 0..MaxChunks }

\* the number of bytes an input lacks at its end: none, half of the crc of its
\* last chunk, the crc and one byte in front of it
Cuts == {0, 2, 5}

InitWith(inputs, signatures, endings, cuts) ==
  /\ \E rs \in inputs, sig \in signatures, terminated \in endings, cut \in cuts :
       /\ recs = (IF terminated THEN Append(rs, Rec(IENDChunk, <<>>)) ELSE rs)
       /\ cut <= Len(FrameAll(recs))
       /\ input = sig \o SubSeq(FrameAll(recs), 1, Len(FrameAll(recs)) - cut)
  /\ pos = 0
  /\ pc = "ParsePng"
  /\ chunks = <<>>
  /\ png = NoPng
  /\ acc = <<>>
  /\ err = "nil"
  /\ OtherChunk = NilMap
  /\ mu = Unlocked
  /\ nRead = 0
  /\ pool0 = <<>>
  /\ claimed = <<>>
  /\ registered = <<>>
  /\ last = NoCall
  /\ ncalls = 0
  /\ th = [t \in 1..NumCallers |-> NewThread]

Init == InitWith(Inputs, Signatures, BOOLEAN, Cuts)

\* -------------------------------------------------------------- the reader
\* r.Read(buf) with len(buf) = n, at offset at of the input: the bytes of the
\* input that are left, at most n of them, the rest of the buffer staying
\* zero; io.EOF when nothing is left (os.File and bytes.Reader agree on every
\* read ParsePng makes that decides its result).
Read(at, n) ==
  LET avail == Len(input) - at
      k     == Min(n, avail)
  IN  [n   |-> k,
       err |-> IF n > 0 /\ avail = 0 THEN "EOF" ELSE "nil",
       buf |-> SubSeq(input, at + 1, at + k) \o Zeros(n - k)]

\* readChunk(r): four reads, the count each one returns is dropped
readChunk(at) ==
  LET l       == Read(at, 4)
      name    == Read(at + l.n, 4)
      length  == Uint32(l.buf)
      content == Read(at + l.n + name.n, length)
      crc     == Read(at + l.n + name.n + content.n, 4)
      fail(e, p) == [err |-> e, chunk |-> NilChunk, pos |-> p]
  IN  IF l.err # "nil" THEN fail(l.err, at)
      ELSE IF name.err # "nil" THEN fail(name.err, at + l.n)
      ELSE IF content.err # "nil" THEN fail(content.err, at + l.n + name.n)
      ELSE IF crc.err # "nil" THEN fail(crc.err, at + l.n + name.n + content.n)
      ELSE [err   |-> "nil",
            chunk |-> [len |-> l.buf, code |-> name.buf, data |-> content.buf, crc |-> crc.buf],
            pos   |-> at + l.n + name.n + content.n + crc.n]

\* &chunk{...}: the chunk as an object of its own, told from every other one
\* by ptr, the ordinal of the readChunk call that allocated it
NewChunk(ch, n) ==
  [ptr |-> n, len |-> ch.len, code |-> ch.code, data |-> ch.data, crc |-> ch.crc]

\* -------------------------------------------------------------- ParseChunk
\* mutant: the scan looks at the head of the pool only
MatchHead(pool, name) ==
  IF pool # <<>> /\ pool[1] # NilChunk /\ pool[1].code = name THEN 1 ELSE 0

\* mutant: the scan runs from the end of the pool
MatchLast(pool, name) ==
  IF \E i \in 1..Len(pool) : pool[i] # NilChunk /\ pool[i].code = name
  THEN CHOOSE i \in 1..Len(pool) :
         /\ pool[i] # NilChunk /\ pool[i].code = name
         /\ \A j \in (i + 1)..Len(pool) : pool[j] = NilChunk \/ pool[j].code # name
  ELSE 0

\* the index of the first chunk of the pool whose code is name, 0 if none
\* (the loop of ParseChunk up to its first match)
Match(pool, name) ==
  IF \E i \in 1..Len(pool) : pool[i] # NilChunk /\ pool[i].code = name
  THEN CHOOSE i \in 1..Len(pool) :
         /\ pool[i] # NilChunk /\ pool[i].code = name
         /\ \A j \in 1..(i - 1) : pool[j] = NilChunk \/ pool[j].code # name
  ELSE 0

\* the map write of the miss path: p.OtherChunk[c.ChunkName()] = x
Store(other, name, x) ==
  [isNil |-> FALSE,
   m |-> [n \in (DOMAIN other.m) \cup {name} |-> IF n = name THEN x ELSE other.m[n]]]

\* x, ok := p.OtherChunk[name]; a nil map reads as an empty one
Lookup(other, name) ==
  IF ~other.isNil /\ name \in DOMAIN other.m
  THEN [x |-> other.m[name], ok |-> TRUE]
  ELSE [x |-> <<>>, ok |-> FALSE]

\* the miss path of ParseChunk with nothing running beside it: the decoder is
\* appended to the sequence of its name; a write to the nil map panics, after
\* p.Lock() and before p.Unlock()
Register(other, c) ==
  LET got == Lookup(other, c.name)
  IN  IF other.isNil
      THEN [out |-> "panic", err |-> "assignment to entry in nil map", other |-> other, locked |-> TRUE]
      ELSE [out |-> "return", err |-> chunkNotFoundErr, locked |-> FALSE,
            other |-> Store(other, c.name, IF got.ok THEN Append(got.x, c) ELSE <<c>>)]

\* mutant: a chunk whose Parse fails is removed from the pool all the same
ParseChunkDropsOnError(pool, other, c, notSave) ==
  LET i == Match(pool, c.name)
      r == Parse(c.name, pool[i])
      res(out, e, newpool, newother, v, locked) ==
        [out |-> out, err |-> e, chunks |-> newpool, other |-> newother,
         idx |-> i, val |-> v, locked |-> locked,
         locks |-> IF i = 0 /\ ~notSave THEN 2 ELSE 0]
  IN  IF i # 0
      THEN IF r.kind = "panic" THEN res("panic", r.err, pool, other, <<>>, FALSE)
           ELSE IF r.kind = "err" THEN res("return", r.err, RemoveAt(pool, i), other, <<>>, FALSE)
           ELSE res("return", "nil", RemoveAt(pool, i), other, r.val, FALSE)
      ELSE IF ~notSave
           THEN LET g == Register(other, c)
                IN  res(g.out, g.err, pool, g.other, <<>>, g.locked)
           ELSE res("return", chunkNotFoundErr, pool, other, <<>>, FALSE)

\* mutant: the miss path registers the decoder whatever notSave says
ParseChunkAlwaysSaves(pool, other, c, notSave) ==
  LET i == Match(pool, c.name)
      r == Parse(c.name, pool[i])
      res(out, e, newpool, newother, v, locked) ==
        [out |-> out, err |-> e, chunks |-> newpool, other |-> newother,
         idx |-> i, val |-> v, locked |-> locked,
         locks |-> IF i = 0 THEN 2 ELSE 0]
  IN  IF i # 0
      THEN IF r.kind = "panic" THEN res("panic", r.err, pool, other, <<>>, FALSE)
           ELSE IF r.kind = "err" THEN res("return", r.err, pool, other, <<>>, FALSE)
           ELSE res("return", "nil", RemoveAt(pool, i), other, r.val, FALSE)
      ELSE LET g == Register(other, c)
           IN  res(g.out, g.err, pool, g.other, <<>>, g.locked)

\* p.ParseChunk(c, notSave...) as one step: what it returns (or its panic),
\* what it leaves in p.chunks and p.OtherChunk, whether it leaves p locked, and
\* the number of p.RLock() and p.Lock() calls it has made
ParseChunk(pool, other, c, notSave) ==
  LET i == Match(pool, c.name)
      r == Parse(c.name, pool[i])
      res(out, e, newpool, newother, v, locked) ==
        [out |-> out, err |-> e, chunks |-> newpool, other |-> newother,
         idx |-> i, val |-> v, locked |-> locked,
         locks |-> IF i = 0 /\ ~notSave THEN 2 ELSE 0]
  IN  IF i # 0
      THEN IF r.kind = "panic" THEN res("panic", r.err, pool, other, <<>>, FALSE)
           ELSE IF r.kind = "err" THEN res("return", r.err, pool, other, <<>>, FALSE)
           ELSE res("return", "nil", RemoveAt(pool, i), other, r.val, FALSE)
      ELSE IF ~notSave
           THEN LET g == Register(other, c)
                IN  res(g.out, g.err, pool, g.other, <<>>, g.locked)
           ELSE res("return", chunkNotFoundErr, pool, other, <<>>, FALSE)

\* the record of a finished ParseChunk call, with p as the call found it
CallOf(by, c, notSave, r, before) ==
  [op |-> "ParseChunk", by |-> by, c |-> c, notSave |-> notSave, out |-> r.out,
   err |-> r.err, before |-> before, idx |-> r.idx, val |-> r.val, list |-> <<>>,
   otherBefore |-> OtherChunk, pngBefore |-> png, locks |-> r.locks]

\* the successful claims so far: the chunk, the decoder it was handed to, and
\* who called ("plan": parseBaseChunk, "caller": the caller of ParsePng)
Claimed(by, c, r, before) ==
  IF r.out = "return" /\ r.err = "nil"
  THEN Append(claimed, [chunk |-> before[r.idx], c |-> c, by |-> by])
  ELSE claimed

\* the registrations so far: the decoders of the calls that matched nothing
\* with retention enabled and went to write the map (the locks are taken on
\* that path only)
Registrations(c, r) ==
  IF r.locks > 0 THEN Append(registered, c) ELSE registered

\* ---------------------------------------------------------------- ParsePng
\* mutant: only the number of bytes read is checked
SignatureOkByLength(hex) == hex.n = 8

\* read != 8 || string(hex) != pngHeader, negated
SignatureOk(hex) == hex.n = 8 /\ hex.buf = pngHeaderBytes

\* the signature read and check
ParsePng ==
  /\ pc = "ParsePng"
  /\ LET hex == Read(pos, 8)
     IN  /\ pos' = pos + hex.n
         /\ IF hex.err # "nil"
            THEN pc' = "failed" /\ err' = hex.err
            ELSE IF ~SignatureOk(hex)
            THEN pc' = "failed" /\ err' = "invalid png"
            ELSE pc' = "readChunk" /\ err' = err
  /\ UNCHANGED <<input, recs, chunks, png, acc, OtherChunk, mu, nRead, pool0,
                 claimed, registered, last, ncalls, th>>

\* mutant: the code is tested before the append, the IEND chunk is not stored
ParsePngReadChunkDropsIEND ==
  /\ pc = "readChunk"
  /\ LET rc == readChunk(pos)
     IN  /\ pos' = rc.pos
         /\ nRead' = nRead + 1
         /\ IF rc.err # "nil"
            THEN /\ pc' = "failed" /\ err' = rc.err
                 /\ UNCHANGED <<chunks, pool0>>
            ELSE IF rc.chunk.code = IENDChunk
            THEN /\ pc' = "parseBaseChunk" /\ err' = err
                 /\ UNCHANGED <<chunks, pool0>>
            ELSE /\ chunks' = Append(chunks, NewChunk(rc.chunk, nRead + 1))
                 /\ err' = err
                 /\ pool0' = Append(pool0, NewChunk(rc.chunk, nRead + 1))
                 /\ pc' = "readChunk"
  /\ UNCHANGED <<input, recs, png, acc, OtherChunk, mu, claimed, registered, last, ncalls, th>>

\* mutant: the loop does not stop at an IEND chunk, it reads on to the end
ParsePngReadChunkReadsOn ==
  /\ pc = "readChunk"
  /\ LET rc == readChunk(pos)
     IN  /\ pos' = rc.pos
         /\ nRead' = nRead + 1
         /\ IF rc.err # "nil"
            THEN /\ pc' = "failed" /\ err' = rc.err
                 /\ UNCHANGED <<chunks, pool0>>
            ELSE /\ chunks' = Append(chunks, NewChunk(rc.chunk, nRead + 1))
                 /\ err' = err
                 /\ pool0' = Append(pool0, NewChunk(rc.chunk, nRead + 1))
                 /\ pc' = "readChunk"
  /\ UNCHANGED <<input, recs, png, acc, OtherChunk, mu, claimed, registered, last, ncalls, th>>

\* mutant: an error of readChunk ends the loop instead of ParsePng
ParsePngReadChunkBreaksOnError ==
  /\ pc = "readChunk"
  /\ LET rc == readChunk(pos)
     IN  /\ pos' = rc.pos
         /\ nRead' = nRead + 1
         /\ IF rc.err # "nil"
            THEN /\ pc' = "parseBaseChunk" /\ err' = err
                 /\ UNCHANGED <<chunks, pool0>>
            ELSE /\ chunks' = Append(chunks, NewChunk(rc.chunk, nRead + 1))
                 /\ err' = err
                 /\ pool0' = Append(pool0, NewChunk(rc.chunk, nRead + 1))
                 /\ pc' = (IF rc.chunk.code = IENDChunk THEN "parseBaseChunk" ELSE "readChunk")
  /\ UNCHANGED <<input, recs, png, acc, OtherChunk, mu, claimed, registered, last, ncalls, th>>

\* one turn of the segmentation loop
ParsePngReadChunk ==
  /\ pc = "readChunk"
  /\ LET rc == readChunk(pos)
     IN  /\ pos' = rc.pos
         /\ nRead' = nRead + 1
         /\ IF rc.err # "nil"
            THEN /\ pc' = "failed" /\ err' = rc.err
                 /\ UNCHANGED <<chunks, pool0>>
            ELSE /\ chunks' = Append(chunks, NewChunk(rc.chunk, nRead + 1))
                 /\ err' = err
                 /\ pool0' = Append(pool0, NewChunk(rc.chunk, nRead + 1))
                 /\ pc' = (IF rc.chunk.code = IENDChunk THEN "parseBaseChunk" ELSE "readChunk")
  /\ UNCHANGED <<input, recs, png, acc, OtherChunk, mu, claimed, registered, last, ncalls, th>>

\* ---------------------------------------------------------- parseBaseChunk
\* the fixed plan, each step named by the Go variable it fills
Plan ==
  << "IHDR", "IDAT", "PLTE", "BKGD", "CHRM", "GAMA", "HIST", "PHYS", "SBIT",
     "TEXT", "TRNS", "TIME", "ZTXT", "IEND" >>

Mandatory == {"IHDR", "IEND"}

Repeatable == {"IDAT", "TEXT", "ZTXT"}

Optional == {"PLTE", "BKGD", "CHRM", "GAMA", "HIST", "PHYS", "SBIT", "TRNS", "TIME"}

\* the ChunkName() of the decoder of a step
NameOf(step) ==
  CASE step = "IHDR" -> IHDRChunk [] step = "IDAT" -> IDATChunk
    [] step = "PLTE" -> PLTEChunk [] step = "BKGD" -> BKGDChunk
    [] step = "CHRM" -> CHRMChunk [] step = "GAMA" -> GAMAChunk
    [] step = "HIST" -> HISTChunk [] step = "PHYS" -> PHYSChunk
    [] step = "SBIT" -> SBITChunk [] step = "TEXT" -> TEXTChunk
    [] step = "TRNS" -> TRNSChunk [] step = "TIME" -> TIMEChunk
    [] step = "ZTXT" -> ZTXTChunk [] step = "IEND" -> IENDChunk

\* the field of p a step assigns
FieldOf(step) ==
  CASE step = "IDAT" -> "IDATs" [] step = "TEXT" -> "TEXTs" [] step = "ZTXT" -> "ZTXTs"
    [] OTHER -> step

\* the step after a step of the plan ("done" after the last: return nil)
After(step) ==
  LET i == CHOOSE k \in 1..Len(Plan) : Plan[k] = step
  IN  IF i = Len(Plan) THEN "done" ELSE Plan[i + 1]

\* the decoder a step allocates: &IHDR{}, &IDAT{}, ...
PlanDecoder(step) == [name |-> NameOf(step), id |-> 0]

\* mutant: the plan's calls leave notSave out
PlanClaimRetains(step) == ParseChunk(chunks, OtherChunk, PlanDecoder(step), FALSE)

\* every ParseChunk call of the plan passes notSave = true
PlanClaim(step) == ParseChunk(chunks, OtherChunk, PlanDecoder(step), TRUE)

\* what a step leaves behind besides its own result
PlanEffect(step, r) ==
  /\ chunks' = r.chunks
  /\ OtherChunk' = r.other
  /\ claimed' = Claimed("plan", PlanDecoder(step), r, chunks)
  /\ registered' = Registrations(PlanDecoder(step), r)
  /\ last' = CallOf("plan", PlanDecoder(step), TRUE, r, chunks)
  /\ UNCHANGED <<input, pos, recs, nRead, pool0, ncalls, th>>

\* mutant: the check of len(IDATs) is missing
NoImageDataUnchecked(step, IDATs) == FALSE

\* len(IDATs) == 0 after the IDAT loop
NoImageData(step, IDATs) == step = "IDAT" /\ Len(IDATs) = 0

\* mutant: the new element is put in front
PrependDecoded(list, val) == val \o list

\* IDATs = append(IDATs, idat), and the same for TEXTs and ZTXTs
AppendDecoded(list, val) == list \o val

\* p.Lock(); defer p.Unlock()
parseBaseChunkLock ==
  /\ pc = "parseBaseChunk"
  /\ ~mu.w /\ mu.r = 0
  /\ mu' = [w |-> TRUE, r |-> 0]
  /\ pc' = Plan[1]
  /\ UNCHANGED <<input, pos, recs, chunks, png, acc, err, OtherChunk, nRead, pool0,
                 claimed, registered, last, ncalls, th>>

\* IHDR and IEND: any error of the claim is returned
parseBaseChunkMandatory ==
  \E step \in Mandatory :
    /\ pc = step
    /\ LET r == PlanClaim(step)
       IN  /\ PlanEffect(step, r)
           /\ IF r.out = "panic"
              THEN pc' = "panicked" /\ err' = r.err /\ mu' = Unlocked /\ UNCHANGED <<png, acc>>
              ELSE IF r.err # "nil"
              THEN pc' = "failed" /\ err' = r.err /\ mu' = Unlocked /\ UNCHANGED <<png, acc>>
              ELSE /\ png' = [png EXCEPT ![FieldOf(step)] = r.val]
                   /\ pc' = After(step)
                   /\ mu' = (IF After(step) = "done" THEN Unlocked ELSE mu)
                   /\ acc' = <<>>
                   /\ err' = err

\* mutant: an error of the decoder does not end the loop, the claim is made again
parseBaseChunkRepeatRetries ==
  \E step \in Repeatable :
    /\ pc = step
    /\ LET r == PlanClaim(step)
       IN  /\ PlanEffect(step, r)
           /\ IF r.out = "panic"
              THEN pc' = "panicked" /\ err' = r.err /\ mu' = Unlocked /\ UNCHANGED <<png, acc>>
              ELSE IF r.err = "nil"
              THEN /\ acc' = AppendDecoded(acc, r.val)
                   /\ UNCHANGED <<pc, err, mu, png>>
              ELSE IF r.err # chunkNotFoundErr
              THEN UNCHANGED <<pc, err, mu, png, acc>>
              ELSE IF NoImageData(step, acc)
              THEN pc' = "failed" /\ err' = "no IDAT found" /\ mu' = Unlocked /\ UNCHANGED <<png, acc>>
              ELSE /\ png' = [png EXCEPT ![FieldOf(step)] = acc]
                   /\ pc' = After(step)
                   /\ acc' = <<>>
                   /\ UNCHANGED <<err, mu>>

\* IDAT, tEXt, zTXT: one turn of the loop; chunkNotFoundErr ends it, any other
\* error is returned, and no IDAT at all is an error
parseBaseChunkRepeat ==
  \E step \in Repeatable :
    /\ pc = step
    /\ LET r == PlanClaim(step)
       IN  /\ PlanEffect(step, r)
           /\ IF r.out = "panic"
              THEN pc' = "panicked" /\ err' = r.err /\ mu' = Unlocked /\ UNCHANGED <<png, acc>>
              ELSE IF r.err = "nil"
              THEN /\ acc' = AppendDecoded(acc, r.val)
                   /\ UNCHANGED <<pc, err, mu, png>>
              ELSE IF r.err # chunkNotFoundErr
              THEN pc' = "failed" /\ err' = r.err /\ mu' = Unlocked /\ UNCHANGED <<png, acc>>
              ELSE IF NoImageData(step, acc)
              THEN pc' = "failed" /\ err' = "no IDAT found" /\ mu' = Unlocked /\ UNCHANGED <<png, acc>>
              ELSE /\ png' = [png EXCEPT ![FieldOf(step)] = acc]
                   /\ pc' = After(step)
                   /\ acc' = <<>>
                   /\ UNCHANGED <<err, mu>>

\* mutant: p.Unlock() is not deferred, a panic of a decoder leaves p locked
parseBaseChunkOptionalKeepsLock ==
  \E step \in Optional :
    /\ pc = step
    /\ LET r == PlanClaim(step)
       IN  /\ PlanEffect(step, r)
           /\ IF r.out = "panic"
              THEN pc' = "panicked" /\ err' = r.err /\ UNCHANGED <<mu, png, acc>>
              ELSE /\ png' = (IF r.err = "nil" THEN [png EXCEPT ![FieldOf(step)] = r.val] ELSE png)
                   /\ pc' = After(step)
                   /\ UNCHANGED <<err, mu, acc>>

\* the optional kinds: one claim, the field is set if it returned nil
parseBaseChunkOptional ==
  \E step \in Optional :
    /\ pc = step
    /\ LET r == PlanClaim(step)
       IN  /\ PlanEffect(step, r)
           /\ IF r.out = "panic"
              THEN pc' = "panicked" /\ err' = r.err /\ mu' = Unlocked /\ UNCHANGED <<png, acc>>
              ELSE /\ png' = (IF r.err = "nil" THEN [png EXCEPT ![FieldOf(step)] = r.val] ELSE png)
                   /\ pc' = After(step)
                   /\ UNCHANGED <<err, mu, acc>>

\* -------------------------------------------------------------- the caller
\* the decoders a caller of the parsed Png passes to ParseChunk: the README's
\* custom one and a built-in one
CallerNames == {CustomChunk, IHDRChunk}

\* the variadic notSave: omitted, false, true
NotSaveArgs == {<<>>, <<FALSE>>, <<TRUE>>}

\* len(notSave) > 0 && notSave[0]
NotSave(args) == Len(args) > 0 /\ args[1]

\* mutant: a claim made by the caller resets a field of p
CallerParseChunkFillsField ==
  /\ pc = "done"
  /\ ncalls < MaxCalls
  /\ ~mu.w /\ mu.r = 0
  /\ \E name \in CallerNames, args \in NotSaveArgs :
       LET c == [name |-> name, id |-> ncalls + 1]
           r == ParseChunk(chunks, OtherChunk, c, NotSave(args))
       IN  /\ chunks' = r.chunks
           /\ OtherChunk' = r.other
           /\ claimed' = Claimed("caller", c, r, chunks)
           /\ registered' = Registrations(c, r)
           /\ last' = CallOf("caller", c, NotSave(args), r, chunks)
           /\ mu' = [w |-> r.locked, r |-> 0]
           /\ pc' = (IF r.out = "panic" THEN "panicked" ELSE pc)
           /\ err' = (IF r.out = "panic" THEN r.err ELSE err)
           /\ png' = (IF r.err = "nil" THEN [png EXCEPT !.IDATs = <<>>] ELSE png)
  /\ ncalls' = ncalls + 1
  /\ UNCHANGED <<input, pos, recs, acc, nRead, pool0, th>>

\* p.ParseChunk(c, notSave...) by the caller of ParsePng, nothing running
\* beside it; the decoder is a fresh object, told from the others by id
CallerParseChunk ==
  /\ pc = "done"
  /\ ncalls < MaxCalls
  /\ ~mu.w /\ mu.r = 0
  /\ \E name \in CallerNames, args \in NotSaveArgs :
       LET c == [name |-> name, id |-> ncalls + 1]
           r == ParseChunk(chunks, OtherChunk, c, NotSave(args))
       IN  /\ chunks' = r.chunks
           /\ OtherChunk' = r.other
           /\ claimed' = Claimed("caller", c, r, chunks)
           /\ registered' = Registrations(c, r)
           /\ last' = CallOf("caller", c, NotSave(args), r, chunks)
           /\ mu' = [w |-> r.locked, r |-> 0]
           /\ pc' = (IF r.out = "panic" THEN "panicked" ELSE pc)
           /\ err' = (IF r.out = "panic" THEN r.err ELSE err)
  /\ ncalls' = ncalls + 1
  /\ UNCHANGED <<input, pos, recs, png, acc, nRead, pool0, th>>

\* p.GetOtherChunkByName(name), nothing running beside it
GetOtherChunkByName ==
  /\ pc = "done"
  /\ ~mu.w
  /\ \E name \in CallerNames :
       LET got == Lookup(OtherChunk, name)
       IN  last' = [NoCall EXCEPT !.op = "GetOtherChunkByName", !.by = "caller",
                                  !.c = [name |-> name, id |-> 0], !.out = "return",
                                  !.err = (IF got.ok THEN "nil" ELSE chunkNotFoundErr),
                                  !.list = got.x]
  /\ UNCHANGED <<input, pos, recs, pc, chunks, png, acc, err, OtherChunk, mu, nRead,
                 pool0, claimed, registered, ncalls, th>>

\* OtherChunk is an exported field that nothing in the package allocates: a
\* caller who wants the fallback store assigns a map to it
CallerAssignOtherChunk ==
  /\ pc = "done"
  /\ OtherChunk.isNil
  /\ \A t \in 1..NumCallers : th[t].pc = "new"
  /\ ~mu.w /\ mu.r = 0
  /\ OtherChunk' = EmptyMap
  /\ UNCHANGED <<input, pos, recs, pc, chunks, png, acc, err, mu, nRead, pool0,
                 claimed, registered, last, ncalls, th>>

\* ------------------------------------------------------- the specification
Next ==
  \/ ParsePng
  \/ ParsePngReadChunk
  \/ parseBaseChunkLock
  \/ parseBaseChunkMandatory
  \/ parseBaseChunkRepeat
  \/ parseBaseChunkOptional
  \/ CallerParseChunk
  \/ GetOtherChunkByName
  \/ CallerAssignOtherChunk

Spec == Init /\ [][Next]_vars

\* ------------------------------------------------- goroutines on one Png
\* After ParsePng has returned p, NumCallers goroutines each make one call on
\* it.  A call is taken apart at its lock operations and at its accesses to
\* p.chunks and p.OtherChunk, and the goroutines interleave between them.

\* the decoders the goroutines pass: all of one name, so that they meet at one
\* key of OtherChunk
GoNames == {CustomChunk}

Returned(t, e) == [th EXCEPT ![t].pc = "returned", ![t].err = e]

\* ParseChunk up to its first lock operation: the clone of p.chunks, the scan,
\* the Parse of the match and the removal from the clone
GoParseChunk ==
  /\ pc = "done"
  /\ \E t \in 1..NumCallers, name \in GoNames, args \in NotSaveArgs :
       /\ th[t].pc = "new"
       /\ LET c  == [name |-> name, id |-> t]
              i  == Match(chunks, name)
              r  == Parse(name, chunks[i])
              me == [th[t] EXCEPT !.op = "ParseChunk", !.c = c, !.notSave = NotSave(args)]
          IN  IF i # 0
              THEN IF r.kind = "panic"
                   THEN pc' = "panicked" /\ err' = r.err /\ th' = [th EXCEPT ![t] = me]
                   ELSE IF r.kind = "err"
                   THEN /\ th' = [th EXCEPT ![t] = [me EXCEPT !.pc = "returned", !.err = r.err]]
                        /\ UNCHANGED <<pc, err>>
                   ELSE /\ th' = [th EXCEPT ![t] = [me EXCEPT !.pc = "assign", !.hit = chunks[i],
                                                              !.nChunks = RemoveAt(chunks, i)]]
                        /\ UNCHANGED <<pc, err>>
              ELSE /\ th' = [th EXCEPT ![t] =
                               IF NotSave(args)
                               THEN [me EXCEPT !.pc = "returned", !.err = chunkNotFoundErr]
                               ELSE [me EXCEPT !.pc = "RLock"]]
                   /\ UNCHANGED <<pc, err>>
  /\ UNCHANGED <<input, pos, recs, chunks, png, acc, OtherChunk, mu, nRead, pool0,
                 claimed, registered, last, ncalls>>

\* p.chunks = nChunks; return nil
GoAssign ==
  /\ pc = "done"
  /\ \E t \in 1..NumCallers :
       /\ th[t].pc = "assign"
       /\ chunks' = th[t].nChunks
       /\ claimed' = Append(claimed, [chunk |-> th[t].hit, c |-> th[t].c, by |-> "caller"])
       /\ th' = Returned(t, "nil")
  /\ UNCHANGED <<input, pos, recs, pc, png, acc, err, OtherChunk, mu, nRead, pool0,
                 registered, last, ncalls>>

\* p.RLock()
GoRLock ==
  /\ pc = "done"
  /\ ~mu.w
  /\ \E t \in 1..NumCallers :
       /\ th[t].pc = "RLock"
       /\ th' = [th EXCEPT ![t].pc = "read"]
  /\ mu' = [mu EXCEPT !.r = @ + 1]
  /\ UNCHANGED <<input, pos, recs, pc, chunks, png, acc, err, OtherChunk, nRead, pool0,
                 claimed, registered, last, ncalls>>

\* x, ok := p.OtherChunk[c.ChunkName()]
GoRead ==
  /\ pc = "done"
  /\ \E t \in 1..NumCallers :
       /\ th[t].pc = "read"
       /\ LET got == Lookup(OtherChunk, th[t].c.name)
          IN  th' = [th EXCEPT ![t].pc = "RUnlock", ![t].x = got.x, ![t].ok = got.ok]
  /\ UNCHANGED <<input, pos, recs, pc, chunks, png, acc, err, OtherChunk, mu, nRead,
                 pool0, claimed, registered, last, ncalls>>

\* p.RUnlock(), and x = append(x, c) if ok
GoRUnlock ==
  /\ pc = "done"
  /\ \E t \in 1..NumCallers :
       /\ th[t].pc = "RUnlock"
       /\ th' = [th EXCEPT ![t].pc = "Lock",
                           ![t].x = IF th[t].ok THEN Append(th[t].x, th[t].c) ELSE th[t].x]
  /\ mu' = [mu EXCEPT !.r = @ - 1]
  /\ UNCHANGED <<input, pos, recs, pc, chunks, png, acc, err, OtherChunk, nRead, pool0,
                 claimed, registered, last, ncalls>>

\* mutant: the writer does not wait for the readers to leave
GoLockSkipsReaders ==
  /\ pc = "done"
  /\ ~mu.w
  /\ \E t \in 1..NumCallers :
       /\ th[t].pc = "Lock"
       /\ th' = [th EXCEPT ![t].pc = "write"]
  /\ mu' = [mu EXCEPT !.w = TRUE]
  /\ UNCHANGED <<input, pos, recs, pc, chunks, png, acc, err, OtherChunk, nRead, pool0,
                 claimed, registered, last, ncalls>>

\* p.Lock()
GoLock ==
  /\ pc = "done"
  /\ ~mu.w /\ mu.r = 0
  /\ \E t \in 1..NumCallers :
       /\ th[t].pc = "Lock"
       /\ th' = [th EXCEPT ![t].pc = "write"]
  /\ mu' = [mu EXCEPT !.w = TRUE]
  /\ UNCHANGED <<input, pos, recs, pc, chunks, png, acc, err, OtherChunk, nRead, pool0,
                 claimed, registered, last, ncalls>>

\* p.OtherChunk[c.ChunkName()] = x, or = []ChunkParse{c} if the name had no
\* entry; a panic if the map is nil
GoWrite ==
  /\ pc = "done"
  /\ \E t \in 1..NumCallers :
       /\ th[t].pc = "write"
       /\ registered' = Append(registered, th[t].c)
       /\ IF OtherChunk.isNil
          THEN /\ pc' = "panicked" /\ err' = "assignment to entry in nil map"
               /\ UNCHANGED <<OtherChunk, th>>
          ELSE /\ OtherChunk' = Store(OtherChunk, th[t].c.name,
                                       IF th[t].ok THEN th[t].x ELSE <<th[t].c>>)
               /\ th' = [th EXCEPT ![t].pc = "Unlock"]
               /\ UNCHANGED <<pc, err>>
  /\ UNCHANGED <<input, pos, recs, chunks, png, acc, mu, nRead, pool0, claimed, last,
                 ncalls>>

\* p.Unlock(); return chunkNotFoundErr
GoUnlock ==
  /\ pc = "done"
  /\ \E t \in 1..NumCallers :
       /\ th[t].pc = "Unlock"
       /\ th' = Returned(t, chunkNotFoundErr)
  /\ mu' = [mu EXCEPT !.w = FALSE]
  /\ UNCHANGED <<input, pos, recs, pc, chunks, png, acc, err, OtherChunk, nRead, pool0,
                 claimed, registered, last, ncalls>>

\* GetOtherChunkByName: p.RLock(); defer p.RUnlock()
GoGetRLock ==
  /\ pc = "done"
  /\ ~mu.w
  /\ \E t \in 1..NumCallers, name \in GoNames :
       /\ th[t].pc = "new"
       /\ th' = [th EXCEPT ![t].pc = "lookup", ![t].op = "GetOtherChunkByName",
                           ![t].c = [name |-> name, id |-> 0]]
  /\ mu' = [mu EXCEPT !.r = @ + 1]
  /\ UNCHANGED <<input, pos, recs, pc, chunks, png, acc, err, OtherChunk, nRead, pool0,
                 claimed, registered, last, ncalls>>

\* list, ok := p.OtherChunk[name], the deferred p.RUnlock() and the return
GoGetReturn ==
  /\ pc = "done"
  /\ \E t \in 1..NumCallers :
       /\ th[t].pc = "lookup"
       /\ LET got == Lookup(OtherChunk, th[t].c.name)
          IN  th' = [th EXCEPT ![t].pc = "returned", ![t].list = got.x,
                               ![t].err = IF got.ok THEN "nil" ELSE chunkNotFoundErr]
  /\ mu' = [mu EXCEPT !.r = @ - 1]
  /\ UNCHANGED <<input, pos, recs, pc, chunks, png, acc, err, OtherChunk, nRead, pool0,
                 claimed, registered, last, ncalls>>

\* the streams the shared Png is parsed from: a header, image data and at most
\* one custom chunk
GoInputs ==
  { << Rec(IHDRChunk, IHDRData(1)), Rec(IDATChunk, <<1>>) >>,
    << Rec(IHDRChunk, IHDRData(1)), Rec(IDATChunk, <<1>>), Rec(CustomChunk, <<7>>) >> }

InitConc == InitWith(GoInputs, {pngHeaderBytes}, {TRUE}, {0})

NextConc ==
  \/ ParsePng
  \/ ParsePngReadChunk
  \/ parseBaseChunkLock
  \/ parseBaseChunkMandatory
  \/ parseBaseChunkRepeat
  \/ parseBaseChunkOptional
  \/ CallerAssignOtherChunk
  \/ GoParseChunk
  \/ GoAssign
  \/ GoRLock
  \/ GoRead
  \/ GoRUnlock
  \/ GoLock
  \/ GoWrite
  \/ GoUnlock
  \/ GoGetRLock
  \/ GoGetReturn

SpecConc == InitConc /\ [][NextConc]_vars

\* -------------------------------------------------- what the claims speak of
\* the number of chunks of a pool with a given code
CountOf(pool, name) == Cardinality({i \in 1..Len(pool) : pool[i].code = name})

\* the number of successful claims made with a decoder of a given name
HitsOf(name) == Cardinality({k \in 1..Len(claimed) : claimed[k].c.name = name})

\* the decoder of a given name decodes every chunk of that code of the stream
ParseSucceeds(name) ==
  \A i \in 1..Len(pool0) : pool0[i].code = name => Parse(name, pool0[i]).kind = "ok"

\* the n-th chunk with a given code that segmentation put in the pool
NthOf(name, n) ==
  pool0[CHOOSE i \in 1..Len(pool0) :
          /\ pool0[i].code = name
          /\ Cardinality({j \in 1..i : pool0[j].code = name}) = n]

\* s is t with some elements left out, the others in the same order
IsSubsequence(s, t) ==
  /\ \A i \in 1..Len(s) : s[i].ptr \in 1..Len(t) /\ t[s[i].ptr] = s[i]
  /\ \A i \in 1..Len(s), j \in 1..Len(s) : i < j => s[i].ptr < s[j].ptr

LastIsClaim == last.op = "ParseChunk"

LastHit == LastIsClaim /\ last.out = "return" /\ last.err = "nil"

LastMiss == LastIsClaim /\ last.idx = 0

\* C1: with N chunks of code T in the segmented pool and a decoder of T that
\* decodes each of them, every ParseChunk call made with retention disabled
\* returns: nil while fewer than N claims of T have succeeded, consuming one
\* chunk of code T and no other, and chunkNotFoundErr, leaving the pool as it
\* was, once N have; there is never an (N+1)-th success.
C1_ExactlyOnce ==
  (LastIsClaim /\ last.notSave /\ ParseSucceeds(last.c.name)) =>
    LET T == last.c.name
        N == CountOf(pool0, T)
    IN  /\ last.out = "return"
        /\ last.err \in {"nil", chunkNotFoundErr}
        /\ last.err = "nil" =>
             /\ HitsOf(T) <= N
             /\ Len(chunks) = Len(last.before) - 1
             /\ CountOf(chunks, T) = CountOf(last.before, T) - 1
             /\ CountOf(chunks, T) = N - HitsOf(T)
        /\ last.err = chunkNotFoundErr =>
             /\ HitsOf(T) = N
             /\ chunks = last.before

\* C1: the call after two successful claims of a code that occurs twice
C1_Witness ==
  /\ LastIsClaim /\ last.notSave /\ ParseSucceeds(last.c.name)
  /\ last.err = chunkNotFoundErr
  /\ CountOf(pool0, last.c.name) = 2
  /\ HitsOf(last.c.name) = 2

\* C2: a successful ParseChunk call leaves the pool it found with the matched
\* chunk taken out, every other chunk kept at its place in the order; and the
\* pool is always a subsequence of the chunks segmentation produced.
C2_RemovesOnlyTheMatch ==
  /\ IsSubsequence(chunks, pool0)
  /\ LastHit =>
       /\ last.before[last.idx].code = last.c.name
       /\ Len(chunks) = Len(last.before) - 1
       /\ \A j \in 1..Len(chunks) :
            chunks[j] = (IF j < last.idx THEN last.before[j] ELSE last.before[j + 1])

\* C2: a claim took a chunk from between two others, one of them of its own code
C2_Witness ==
  /\ LastHit
  /\ 1 < last.idx /\ last.idx < Len(last.before) - 1
  /\ \E j \in last.idx..Len(chunks) : chunks[j].code = last.c.name

\* C3: the k-th successful claim made with a decoder of a code was handed the
\* k-th chunk of that code in stream order.
C3_ArrivalOrder ==
  \A k \in 1..Len(claimed) :
    LET T == claimed[k].c.name
    IN  claimed[k].chunk = NthOf(T, Cardinality({j \in 1..k : claimed[j].c.name = T}))

\* C3: two chunks of one code and different content were claimed
C3_Witness ==
  \E j \in 1..Len(claimed), k \in 1..Len(claimed) :
    /\ j < k
    /\ claimed[j].c.name = claimed[k].c.name
    /\ claimed[j].chunk.data # claimed[k].chunk.data

\* the chunks of the stream up to and including its first IEND chunk
RECURSIVE UpToIEND(_)
UpToIEND(rs) ==
  IF rs = <<>> THEN <<>>
  ELSE IF Head(rs).code = IENDChunk THEN <<Head(rs)>>
  ELSE <<Head(rs)>> \o UpToIEND(Tail(rs))

HasCode(rs, name) == \E i \in 1..Len(rs) : rs[i].code = name

\* the chunks of rs with a given code, in order
OfCode(rs, name) == SelectSeq(rs, LAMBDA r : r.code = name)

GoodSignature == Len(input) >= 8 /\ SubSeq(input, 1, 8) = pngHeaderBytes

\* the number of bytes the input lacks at its end (of an input that starts
\* with a signature of 8 bytes)
Cut == 8 + Len(FrameAll(recs)) - Len(input)

\* the chunks of the stream that the input holds in full: a cut is shorter
\* than a chunk, so all of them or all but the last
Whole == IF Cut = 0 THEN recs ELSE SubSeq(recs, 1, Len(recs) - 1)

\* the input is the signature and framed chunks, one of them an IEND chunk,
\* and holds every chunk up to that one in full
WellFramed == GoodSignature /\ HasCode(Whole, IENDChunk)

\* ParsePng has returned (an error, or p) or has panicked
Finished == pc \in {"done", "failed", "panicked"}

\* the signature step of ParsePng is over
SignatureRead == pc # "ParsePng"

\* C4 as written: an input that does not start with the signature, the empty
\* input included, fails with "invalid png" before any readChunk call.
C4_AsClaimed ==
  (SignatureRead /\ ~GoodSignature) =>
    (pc = "failed" /\ err = "invalid png" /\ nRead = 0)

\* C4: an input that does not start with the signature makes ParsePng fail
\* before any readChunk call: with "invalid png" if the input has at least one
\* byte, with the reader's io.EOF if it is empty.
C4_SignatureGate ==
  (SignatureRead /\ ~GoodSignature) =>
    /\ pc = "failed"
    /\ nRead = 0
    /\ chunks = <<>>
    /\ err = (IF input = <<>> THEN "EOF" ELSE "invalid png")

\* C4: a corrupted signature in front of framed chunks was rejected
C4_Witness ==
  /\ SignatureRead /\ ~GoodSignature
  /\ Len(input) > 8 /\ Len(recs) >= 2
  /\ err = "invalid png"

\* the first IHDR chunk of the stream is there and decodes
HeaderDecodes ==
  /\ HasCode(UpToIEND(recs), IHDRChunk)
  /\ Len(OfCode(UpToIEND(recs), IHDRChunk)[1].data) >= 13

\* C5 as written: a well-framed stream without IDAT chunk fails with
\* "no IDAT found", whatever else it holds.
C5_AsClaimed ==
  (WellFramed /\ ~HasCode(UpToIEND(recs), IDATChunk) /\ Finished) =>
    (pc = "failed" /\ err = "no IDAT found")

\* C5: a well-framed stream without IDAT chunk whose first IHDR chunk decodes
\* fails with "no IDAT found", whatever else it holds; ParsePng never gets
\* past the IDAT step on it.
C5_NoImageData ==
  (WellFramed /\ ~HasCode(UpToIEND(recs), IDATChunk) /\ HeaderDecodes) =>
    /\ pc \in {"ParsePng", "readChunk", "parseBaseChunk", "IHDR", "IDAT", "failed"}
    /\ pc = "failed" => err = "no IDAT found"

\* C5: such a stream with other chunks in it has failed
C5_Witness ==
  /\ WellFramed /\ ~HasCode(UpToIEND(recs), IDATChunk) /\ HeaderDecodes
  /\ Len(recs) = 4
  /\ pc = "failed"

C7_Container ==
  pc = "done" =>
    LET rs    == UpToIEND(recs)
        idats == OfCode(rs, IDATChunk)
        ihdr  == OfCode(rs, IHDRChunk)[1]
    IN  /\ Len(png.IHDR) = 1
        /\ png.IHDR[1].Width = Uint32(SubSeq(ihdr.data, 1, 4))
        /\ png.IHDR[1].Height = Uint32(SubSeq(ihdr.data, 5, 8))
        /\ png.IHDR[1].BitDepth = ihdr.data[9]
        /\ Len(png.IEND) = 1
        /\ Len(png.IDATs) = Len(idats)
        /\ Len(png.IDATs) >= 1
        /\ \A k \in 1..Len(idats) :
             /\ png.IDATs[k].Data = idats[k].data
             /\ png.IDATs[k].Length = Len(idats[k].data)

\* C7: a stream with two IHDR chunks, or with two different IDAT chunks, parsed
C7_Witness ==
  /\ pc = "done"
  /\ Len(png.IDATs) = 2
  /\ png.IDATs[1].Data # png.IDATs[2].Data

\* C7: the first of two different IHDR chunks went into p.IHDR
C7_WitnessHeader ==
  /\ pc = "done"
  /\ Len(OfCode(recs, IHDRChunk)) = 2
  /\ OfCode(recs, IHDRChunk)[1].data # OfCode(recs, IHDRChunk)[2].data

\* the decoder c is an element of the sequence list
Holds(list, c) == \E j \in 1..Len(list) : list[j] = c

\* C8: when a decoder passed to ParseChunk by the caller of ParsePng has claimed
\* a chunk, GetOtherChunkByName with its name returns a sequence that holds it.
C8_ClaimedIsListed ==
  \A k \in 1..Len(claimed) :
    (/\ claimed[k].by = "caller"
     /\ last.op = "GetOtherChunkByName"
     /\ last.c.name = claimed[k].c.name)
    => (last.err = "nil" /\ Holds(last.list, claimed[k].c))

\* C9: on the Png that ParsePng returned, a ParseChunk call with retention
\* enabled that matches no chunk returns chunkNotFoundErr, without a panic, and
\* leaves its decoder in OtherChunk under the decoder's name.
C9_MissRegisters ==
  (LastMiss /\ last.by = "caller" /\ ~last.notSave) =>
    /\ last.out = "return"
    /\ last.err = chunkNotFoundErr
    /\ Holds(Lookup(OtherChunk, last.c.name).x, last.c)

\* the goroutine t went through the miss path of ParseChunk with retention
\* enabled and has returned
Registered(t) ==
  /\ th[t].pc = "returned"
  /\ th[t].op = "ParseChunk"
  /\ ~th[t].notSave
  /\ th[t].err = chunkNotFoundErr

AllReturned == \A t \in 1..NumCallers : th[t].pc = "returned"

\* C10: when every goroutine has returned, the sequence OtherChunk keeps under
\* the name holds the decoder of each goroutine that registered exactly once,
\* and nothing else.
C10_NoLostRegistration ==
  (pc = "done" /\ AllReturned) =>
    \A name \in GoNames :
      LET list == Lookup(OtherChunk, name).x
      IN  /\ \A t \in 1..NumCallers :
               (Registered(t) /\ th[t].c.name = name) =>
                 Cardinality({j \in 1..Len(list) : list[j] = th[t].c}) = 1
          /\ Len(list) = Cardinality({t \in 1..NumCallers : Registered(t) /\ th[t].c.name = name})

\* the goroutine t is inside GetOtherChunkByName, between its p.RLock() and
\* its read of the map
InLookup(t) == th[t].pc = "lookup"

\* the goroutine t is between the p.Lock() and the p.Unlock() around the map
\* write of a registration
InWrite(t) == th[t].pc \in {"write", "Unlock"}

\* the goroutine t has returned from GetOtherChunkByName
LookedUp(t) == th[t].pc = "returned" /\ th[t].op = "GetOtherChunkByName"

\* the goroutine u registers its decoder and has written the map
Wrote(u) ==
  /\ th[u].op = "ParseChunk" /\ ~th[u].notSave
  /\ th[u].pc \in {"Unlock", "returned"}
  /\ th[u].err \in {"nil", chunkNotFoundErr}

\* C11: a GetOtherChunkByName call never reads the map while a registration
\* is between its p.Lock() and p.Unlock(); the sequence it returns is made of
\* whole registrations only: each element is the decoder of a goroutine whose
\* map write is complete, none occurs twice, and with one registration beside
\* it the call returns the sequence before it (not found) or after it (the
\* decoder alone).
C11_LookupSeesWholeSequence ==
  /\ \A t \in 1..NumCallers, u \in 1..NumCallers : ~(InLookup(t) /\ InWrite(u))
  /\ \A t \in 1..NumCallers :
       LookedUp(t) =>
         /\ th[t].err = (IF th[t].list = <<>> THEN chunkNotFoundErr ELSE "nil")
         /\ \A j \in 1..Len(th[t].list) :
              \E u \in 1..NumCallers : Wrote(u) /\ th[t].list[j] = th[u].c
         /\ \A j \in 1..Len(th[t].list), k \in 1..Len(th[t].list) :
              j # k => th[t].list[j] # th[t].list[k]

\* C11: a lookup holds the read lock while a registration, its read of the
\* map done, waits for the write lock
C11_Witness ==
  \E t \in 1..NumCallers, u \in 1..NumCallers :
    /\ InLookup(t)
    /\ th[u].pc = "Lock"
    /\ ~OtherChunk.isNil

\* C11: a lookup that ran beside a registration returned the sequence after it
C11_WitnessAfter ==
  \E t \in 1..NumCallers, u \in 1..NumCallers :
    LookedUp(t) /\ Wrote(u) /\ th[t].list = <<th[u].c>>

\* the names of the built-in decoders
BuiltIn == {NameOf(Plan[k]) : k \in 1..Len(Plan)}

\* the last call was a ParseChunk call made by the caller of ParsePng with a
\* decoder whose name is not a built-in one
LastIsCustomClaim == LastIsClaim /\ last.by = "caller" /\ last.c.name \notin BuiltIn

\* C12: a ParseChunk call made by the caller with a decoder whose name is not a
\* built-in one leaves every field of p from IHDR to IEND as it found it,
\* whether it claims a chunk, misses, or panics on the nil map.
C12_FallbackIsolation ==
  LastIsCustomClaim =>
    /\ png = last.pngBefore
    /\ Len(png.IHDR) = 1 /\ Len(png.IEND) = 1 /\ Len(png.IDATs) >= 1

\* C12: a custom decoder has claimed a chunk of a Png whose fields are set
C12_Witness ==
  /\ LastIsCustomClaim /\ LastHit
  /\ Len(png.IHDR) = 1 /\ Len(png.IEND) = 1 /\ Len(png.IDATs) >= 1

\* C12: a custom decoder has missed and was registered
C12_WitnessMiss ==
  /\ LastIsCustomClaim /\ LastMiss /\ ~last.notSave
  /\ last.out = "return"
  /\ Len(png.IHDR) = 1

\* the input holds the length and the code of an IEND chunk: of one it holds in
\* full, or of a last one whose crc alone is cut
TerminalTagInStream ==
  \/ HasCode(Whole, IENDChunk)
  \/ /\ recs # <<>>
     /\ recs[Len(recs)].code = IENDChunk
     /\ Cut <= 4

\* C13: on an input that starts with the signature and ends before the code
\* of an IEND chunk, ParsePng never gets past segmentation: it fails with the
\* reader's io.EOF and no field of p is ever set.
C13_NoTerminalRecord ==
  (GoodSignature /\ ~TerminalTagInStream) =>
    /\ pc \in {"ParsePng", "readChunk", "failed"}
    /\ png = NoPng
    /\ claimed = <<>>
    /\ pc = "failed" => (err = "EOF" /\ pos = Len(input))

\* C13: segmentation read chunks of such an input and then met its end
C13_Witness ==
  /\ GoodSignature /\ ~TerminalTagInStream
  /\ pc = "failed"
  /\ Len(pool0) >= 2

\* C13: the input ended inside the code of its IEND chunk
C13_WitnessCutTag ==
  /\ GoodSignature /\ ~TerminalTagInStream
  /\ pc = "failed"
  /\ HasCode(recs, IENDChunk)

\* C14: a chunk is put in the pool only if the input holds its four fields in
\* full: the pool never has more chunks than the input holds whole ones, and
\* each chunk of the pool is the chunk of the stream at its place.
C14_AllOrNothing ==
  GoodSignature =>
    /\ Len(pool0) <= Len(Whole)
    /\ \A i \in 1..Len(pool0) :
         /\ i <= Len(recs)
         /\ pool0[i].code = recs[i].code
         /\ pool0[i].data = recs[i].data

\* C14: ParsePng has returned p from an input that ends inside the crc of its
\* IEND chunk
C14_ShortCrcAccepted ==
  /\ GoodSignature /\ Cut = 2
  /\ pc = "done"
  /\ Len(pool0) = Len(recs)

\* a payload its kind allows: 13 bytes of IHDR, 7 of tIME, a keyword, one
\* separator and a text of tEXt; any payload of the other kinds of the catalogue
ValidPayload(r) ==
  CASE r.code = IHDRChunk -> Len(r.data) = 13
    [] r.code = TIMEChunk -> Len(r.data) = 7
    [] r.code = TEXTChunk -> Len(Split(r.data)) = 2
    [] OTHER -> TRUE

\* a valid stream: well framed, a header, image data, valid payloads
ValidStream ==
  /\ WellFramed
  /\ HasCode(UpToIEND(recs), IHDRChunk)
  /\ HasCode(UpToIEND(recs), IDATChunk)
  /\ \A i \in 1..Len(UpToIEND(recs)) : ValidPayload(recs[i])

\* ParsePng has returned an error or has panicked (no call of the caller has)
ParsePngFailed == ncalls = 0 /\ pc \in {"failed", "panicked"}

\* C15: on a valid stream ParsePng does not fail, and when it has returned p
\* each optional field is nil if the stream has no chunk of its kind and is
\* set if it has one.
C15_OptionalKinds ==
  ValidStream =>
    /\ ~ParsePngFailed
    /\ pc = "done" =>
         \A step \in Optional :
           Len(png[FieldOf(step)]) =
             (IF HasCode(UpToIEND(recs), NameOf(step)) THEN 1 ELSE 0)

\* C15: ParsePng has panicked on a valid stream with a bKGD chunk
C15_PanicOnBKGD ==
  /\ ValidStream /\ HasCode(UpToIEND(recs), BKGDChunk)
  /\ pc = "panicked" /\ err = "implement me"
  /\ last.by = "plan" /\ last.c.name = BKGDChunk

\* C16: on a well-framed stream every Parse of a built-in decoder, every
\* ParseChunk call that has matched a chunk, and ParsePng itself return (nil
\* or an error); none of them panics.
C16_ErrorsAreValues ==
  WellFramed =>
    /\ (LastIsClaim /\ last.idx # 0 /\ last.c.name \in BuiltIn) => last.out = "return"
    /\ ~(ncalls = 0 /\ pc = "panicked")

\* C16: ParsePng has panicked in TIME.Parse on a tIME chunk of 2 bytes
C16_PanicOnShortTIME ==
  /\ WellFramed
  /\ pc = "panicked" /\ err = "index out of range"
  /\ last.by = "plan" /\ last.c.name = TIMEChunk
  /\ Len(last.before[last.idx].data) = 2

\* the names the plan claims once
Singletons == {NameOf(step) : step \in Mandatory \cup Optional}

\* a chunk of the segmented pool the plan does not consume: one whose code no
\* built-in decoder has, or one of a singleton kind behind the first of it
Unconsumed(c) ==
  \/ c.code \notin BuiltIn
  \/ /\ c.code \in Singletons
     /\ \E j \in 1..(c.ptr - 1) : pool0[j].code = c.code

\* ParsePng has returned p and the caller has made no call on it yet
JustParsed == pc = "done" /\ ncalls = 0

\* C17: when ParsePng has returned p, p.chunks has no nil entry, is made of
\* the unconsumed chunks of the stream in stream order, and holds no IDAT,
\* tEXt, zTXt or IEND chunk.
C17_ResidualPool ==
  JustParsed =>
    /\ \A i \in 1..Len(chunks) : chunks[i] # NilChunk
    /\ chunks = SelectSeq(pool0, Unconsumed)
    /\ \A i \in 1..Len(chunks) :
         chunks[i].code \notin {IDATChunk, TEXTChunk, ZTXTChunk, StandardZTXt, IENDChunk}

\* C17: ParsePng has returned p with a zTXt chunk left in p.chunks and no
\* element in p.ZTXTs
C17_ZTXtLeftInPool ==
  /\ JustParsed
  /\ HasCode(chunks, StandardZTXt)
  /\ png.ZTXTs = <<>>

\* the last call was a ParseChunk call whose decoder returned an error for the
\* chunk it matched
LastParseError == LastIsClaim /\ last.idx # 0 /\ last.out = "return" /\ last.err # "nil"

\* C18: a ParseChunk call whose decoder returns an error for the matched chunk
\* returns that error, takes no lock, leaves p.chunks as it found it, with the
\* chunk still the first match of its code, and adds nothing to OtherChunk.
C18_ParseErrorKeepsChunk ==
  LastParseError =>
    /\ last.err = Parse(last.c.name, last.before[last.idx]).err
    /\ last.err # chunkNotFoundErr
    /\ chunks = last.before
    /\ Match(chunks, last.c.name) = last.idx
    /\ OtherChunk.m = last.otherBefore.m
    /\ last.locks = 0

\* C18: the caller's second call, made with retention enabled, met a second
\* IHDR chunk that does not decode
C18_Witness ==
  /\ LastParseError
  /\ last.by = "caller" /\ ~last.notSave
  /\ last.err = "invalid chunk data"
  /\ ncalls = 2

\* C19: a ParseChunk call with notSave = true that matches no chunk returns
\* chunkNotFoundErr, takes no lock, and leaves p.chunks and the entries of
\* OtherChunk as it found them; made by the caller of ParsePng, it leaves the
\* fields of p and the mutex as they were as well.
C19_MissWithoutRetention ==
  (LastMiss /\ last.notSave) =>
    /\ last.out = "return"
    /\ last.err = chunkNotFoundErr
    /\ last.locks = 0
    /\ chunks = last.before
    /\ OtherChunk.m = last.otherBefore.m
    /\ last.by = "caller" => (png = last.pngBefore /\ mu = Unlocked)

\* C19: after a registration under the same name, the caller's second call,
\* made with notSave = true, has missed
C19_Witness ==
  /\ LastMiss /\ last.notSave
  /\ last.by = "caller"
  /\ ncalls = 2
  /\ last.c.name \in DOMAIN OtherChunk.m

\* segmentation has put an IEND chunk in the pool
SegmentationOver == pool0 # <<>> /\ pool0[Len(pool0)].code = IENDChunk

\* C20: once segmentation has put an IEND chunk in the pool the loop is over:
\* the pool it has built holds one IEND chunk, as its last element, and in
\* front of it the chunks of the stream up to its first IEND chunk, in stream
\* order, one per readChunk call; no byte behind that chunk has been read.
C20_StopsAtFirstIEND ==
  SegmentationOver =>
    /\ pc \notin {"ParsePng", "readChunk"}
    /\ CountOf(pool0, IENDChunk) = 1
    /\ Len(pool0) = Len(UpToIEND(recs))
    /\ \A i \in 1..Len(pool0) :
         pool0[i].code = recs[i].code /\ pool0[i].data = recs[i].data
    /\ nRead = Len(pool0)
    /\ pos <= 8 + Len(FrameAll(UpToIEND(recs)))
    /\ pc = "parseBaseChunk" => chunks = pool0

\* C20: ParsePng has returned p from a stream that goes on behind its first
\* IEND chunk
C20_Witness ==
  /\ SegmentationOver
  /\ Len(recs) > Len(pool0)
  /\ Len(pool0) = 3
  /\ pc = "done"

\* parseBaseChunk is running: its lock step is done and it has not returned
InPlan == pc \in {Plan[k] : k \in 1..Len(Plan)}

\* the last call was the claim of the IEND step of parseBaseChunk
LastIsTerminalClaim == LastIsClaim /\ last.by = "plan" /\ last.c.name = IENDChunk

\* C21: while parseBaseChunk runs the pool holds the IEND chunk segmentation
\* stored, and the claim of its last step finds it and returns nil: ParsePng
\* never fails at that step.
C21_TerminalClaimSucceeds ==
  /\ InPlan => CountOf(chunks, IENDChunk) = 1
  /\ LastIsTerminalClaim =>
       /\ LastHit
       /\ last.before[last.idx].code = IENDChunk
       /\ Len(png.IEND) = 1
       /\ ~ParsePngFailed

\* C21: the last step claimed the IEND chunk from behind chunks the plan had
\* left in the pool
C21_Witness ==
  /\ LastIsTerminalClaim /\ LastHit
  /\ last.idx >= 2
  /\ pc = "done"

\* the chunk readChunk makes of a chunk the input holds in full
ChunkOf(r) ==
  [len |-> PutUint32(Len(r.data)), code |-> r.code, data |-> r.data, crc |-> Zeros(4)]

\* the chunks of one code in front of the first IEND chunk (that chunk
\* included), in stream order: what a reordering of the stream that keeps the
\* order of the chunks of equal code, and the IEND chunk last, leaves as it is
ByCode(name) == OfCode(UpToIEND(recs), name)

\* the decoded chunks rs of one code, up to the first that does not decode
RECURSIVE DecodeAll(_, _)
DecodeAll(name, rs) ==
  IF rs = <<>> THEN [kind |-> "ok", err |-> "nil", val |-> <<>>]
  ELSE LET r    == Parse(name, ChunkOf(Head(rs)))
           rest == DecodeAll(name, Tail(rs))
       IN  IF r.kind # "ok" THEN r
           ELSE IF rest.kind # "ok" THEN rest
           ELSE [rest EXCEPT !.val = r.val \o @]

\* what a step of the plan comes to, told from the chunks of its code alone
OutcomeByCode(step) ==
  LET rs    == ByCode(NameOf(step))
      first == Parse(NameOf(step), ChunkOf(rs[1]))
      all   == DecodeAll(NameOf(step), rs)
      nil   == [kind |-> "ok", err |-> "nil", val |-> <<>>]
  IN  IF step \in Mandatory
      THEN IF rs = <<>> THEN ParseErr(chunkNotFoundErr) ELSE first
      ELSE IF step \in Repeatable
      THEN IF all.kind = "ok" /\ step = "IDAT" /\ all.val = <<>>
           THEN ParseErr("no IDAT found") ELSE all
      ELSE IF rs = <<>> \/ first.kind = "err" THEN nil ELSE first

\* the result of the plan from its k-th step on, told from ByCode alone
RECURSIVE ResultByCode(_, _)
ResultByCode(k, fields) ==
  IF k > Len(Plan) THEN [pc |-> "done", err |-> "nil", png |-> fields]
  ELSE LET o == OutcomeByCode(Plan[k])
       IN  IF o.kind = "panic" THEN [pc |-> "panicked", err |-> o.err, png |-> fields]
           ELSE IF o.kind = "err" THEN [pc |-> "failed", err |-> o.err, png |-> fields]
           ELSE ResultByCode(k + 1, [fields EXCEPT ![FieldOf(Plan[k])] = o.val])

\* ParsePng has returned or panicked, and the caller has made no call
ParsePngOver == ncalls = 0 /\ pc \in {"done", "failed", "panicked"}

\* C22: what ParsePng makes of a well-framed stream is told by the chunks of
\* each code in their own order, whatever their places among the chunks of
\* other codes: whether it returns p, fails or panics, the error, and on
\* success every field of p.  Two streams that differ by a reordering that
\* keeps the order of the chunks of equal code have the same result.
C22_OrderIndependent ==
  (WellFramed /\ ParsePngOver) =>
    LET res == ResultByCode(1, NoPng)
    IN  /\ pc = res.pc
        /\ err = res.err
        /\ pc = "done" => png = res.png

\* C22: ParsePng has returned p from a stream whose IDAT chunk comes first and
\* whose IHDR chunk comes last
C22_Witness ==
  /\ WellFramed /\ ParsePngOver
  /\ pc = "done"
  /\ Len(recs) = 4
  /\ recs[1].code = IDATChunk
  /\ recs[3].code = IHDRChunk

\* C23: no error ParsePng returns is, or wraps, chunkNotFoundErr.
C23_NotFoundStaysInside ==
  (ncalls = 0 /\ pc = "failed") => err # chunkNotFoundErr

\* C23: ParsePng has returned the error of the IHDR claim, chunkNotFoundErr,
\* for a well-framed stream with image data and no IHDR chunk
C23_NotFoundReturned ==
  /\ WellFramed /\ HasCode(UpToIEND(recs), IDATChunk)
  /\ ncalls = 0 /\ pc = "failed"
  /\ err = chunkNotFoundErr
  /\ last.c.name = IHDRChunk

\* the names of the kinds a stream may lack: the optional ones, tEXt and zTXT
OptionalNames == {NameOf(step) : step \in Optional} \cup {TEXTChunk, ZTXTChunk}

\* C24: when the decoder of an optional kind, tEXt and zTXT included, returns
\* an error for the chunk a claim of the plan has matched, ParsePng does not
\* fail: the plan goes on, and returns p with IHDR, IDATs and IEND set.
C24_OptionalDecodeFailure ==
  (LastParseError /\ last.by = "plan" /\ last.c.name \in OptionalNames) =>
    /\ pc # "failed"
    /\ pc = "done" => (Len(png.IHDR) = 1 /\ Len(png.IDATs) >= 1 /\ Len(png.IEND) = 1)

\* C24: ParsePng has returned "invalid text" for a well-framed stream with a
\* header, image data and a tEXt chunk without separator
C24_FailedOnText ==
  /\ WellFramed /\ HeaderDecodes /\ HasCode(UpToIEND(recs), IDATChunk)
  /\ ncalls = 0 /\ pc = "failed"
  /\ err = "invalid text"
  /\ last.c.name = TEXTChunk

\* the registrations made with decoders of one name, in order
RegisteredAs(name) == SelectSeq(registered, LAMBDA c : c.name = name)

\* C25: OtherChunk holds, under each name, the decoders registered with that
\* name, in the order of their registration, and GetOtherChunkByName returns
\* that sequence, or chunkNotFoundErr for a name nothing was registered with.
C25_InsertionOrder ==
  /\ \A name \in CallerNames : Lookup(OtherChunk, name).x = RegisteredAs(name)
  /\ last.op = "GetOtherChunkByName" =>
       /\ last.list = RegisteredAs(last.c.name)
       /\ last.err = (IF RegisteredAs(last.c.name) = <<>> THEN chunkNotFoundErr ELSE "nil")

\* C25: the first registration on the Png ParsePng returned has panicked and
\* has left nothing in OtherChunk
C25_RegistrationLost ==
  /\ pc = "panicked" /\ err = "assignment to entry in nil map"
  /\ Len(registered) = 1
  /\ OtherChunk = NilMap

\* the names OtherChunk has an entry for
Entries == DOMAIN OtherChunk.m

\* C26: OtherChunk has an entry for a name only if the caller of ParsePng has
\* called ParseChunk with a decoder of that name; the plan registers nothing,
\* so that OtherChunk has no entry as long as the caller has made no call,
\* whatever the input holds.
C26_EntriesComeFromCallers ==
  /\ \A k \in 1..Len(registered) : registered[k].id # PlanDecoder("IHDR").id
  /\ \A name \in Entries : RegisteredAs(name) # <<>>
  /\ ncalls = 0 => Entries = {}

\* C26: with a custom chunk left unclaimed in the pool, the one entry of
\* OtherChunk is that of the name the caller has registered a decoder with
C26_Witness ==
  /\ pc = "done"
  /\ HasCode(chunks, CustomChunk)
  /\ Entries = {IHDRChunk}
  /\ png.PLTE = <<>>

\* the number of chunks the plan has claimed with a decoder of a given name
PlanHitsOf(name) ==
  Cardinality({k \in 1..Len(claimed) : claimed[k].by = "plan" /\ claimed[k].c.name = name})

\* the readChunk calls and the turns of the repeatable loops are bounded by
\* the input: at most one readChunk call more than the stream has chunks up to
\* its first IEND chunk; in a loop each successful claim takes one chunk of
\* the loop's code out of the pool, and the call that does not succeed (no
\* chunk left, or a chunk that does not decode) is the last of the loop
LoopsBounded ==
  /\ nRead <= Len(UpToIEND(recs)) + 1
  /\ nRead <= Len(pool0) + 1
  /\ \A step \in Repeatable :
       /\ PlanHitsOf(NameOf(step)) <= CountOf(pool0, NameOf(step))
       /\ pc = step =>
            CountOf(chunks, NameOf(step)) = CountOf(pool0, NameOf(step)) - PlanHitsOf(NameOf(step))
       /\ (LastIsClaim /\ last.by = "plan" /\ last.c.name = NameOf(step) /\ ~LastHit) =>
            pc # step

\* ParsePng has returned or panicked
ParsePngEnded == pc \in {"done", "failed", "panicked"}

\* the place of a step in the plan
PlaceOf(step) == CHOOSE k \in 1..Len(Plan) : Plan[k] = step

\* what is left for ParsePng to do, as a number: the bytes not yet read while
\* it segments, then the steps of the plan not yet done, each weighted by
\* more than the pool can hold, and the chunks still in the pool
Variant ==
  LET w == Len(input) + 1
      plan == (Len(Plan) + 1) * w
  IN  CASE pc = "ParsePng" -> plan + 2 * w + 1
        [] pc = "readChunk" -> plan + w + (Len(input) - pos)
        [] pc = "parseBaseChunk" -> plan
        [] InPlan -> (Len(Plan) - PlaceOf(pc)) * w + Len(chunks) + 1
        [] OTHER -> 0

\* the guards of the steps of ParsePng: one of them can be taken
CanStep ==
  \/ pc \in {"ParsePng", "readChunk"}
  \/ pc = "parseBaseChunk" /\ ~mu.w /\ mu.r = 0
  \/ InPlan

Progress == LoopsBounded /\ Variant >= 0 /\ (~ParsePngEnded => CanStep)

\* C27: ParsePng comes to an end on every input: before and after every step,
\* as long as it has not returned or panicked it can take a step, every step
\* it takes brings the variant down, and the variant is never negative.  Its
\* loops are bounded by the input: a pool with k chunks of a repeatable kind
\* sees at most k successful claims of that kind and one call that ends the
\* loop.
C27_Terminates ==
  [][Progress /\ Progress' /\ (~ParsePngEnded => Variant' < Variant)]_vars

\* C27: the IDAT loop has made its third call on a pool with two IDAT chunks
C27_Witness ==
  /\ LastIsClaim /\ last.by = "plan" /\ last.c.name = IDATChunk /\ LastMiss
  /\ PlanHitsOf(IDATChunk) = 2
  /\ pc = "PLTE"

\* the guards of a caller's ParseChunk and GetOtherChunkByName: p is not locked
CallerCanLock == ~mu.w /\ mu.r = 0

\* C28: parseBaseChunk holds the write lock of p, and nothing else of it, at
\* every step of the plan; each ParseChunk call it makes passes notSave = true
\* and so takes no lock of p; and when ParsePng has returned or panicked, on
\* whatever path, p is unlocked, so that the first call of a caller can lock.
C28_NoSelfDeadlock ==
  /\ InPlan => mu = [w |-> TRUE, r |-> 0]
  /\ (LastIsClaim /\ last.by = "plan") => (last.notSave /\ last.locks = 0)
  /\ (ncalls = 0 /\ ParsePngEnded) => mu = Unlocked
  /\ (ncalls = 0 /\ pc = "done") => CallerCanLock

\* C28: a decoder of the plan has panicked, and p is unlocked
C28_WitnessPanic ==
  /\ ncalls = 0 /\ pc = "panicked"
  /\ LastIsClaim /\ last.by = "plan" /\ last.out = "panic"
  /\ mu = Unlocked

\* C28: after ParsePng a caller's ParseChunk has taken both locks of the miss
\* path and returned
C28_Witness ==
  /\ pc = "done"
  /\ LastIsClaim /\ last.by = "caller" /\ last.locks = 2 /\ last.out = "return"
  /\ mu = Unlocked

=============================================================================
